---- MODULE Spec2Model ----
(***************************************************************************)
(* The match tracker of verath/timatch: the poll loop that diffs the live  *)
(* league games against the matches seen so far and announces matches that *)
(* enter drafting, start and finish.                                       *)
(*                                                                         *)
(* The repository holds two generations of the tracker.  The variable      *)
(* tracker says which one runs:                                             *)
(*   "absence"  src/lib/bot.go: a started match that is missing from the   *)
(*              live games is finished; its details are looked up once,    *)
(*              inside the same handler; the loop backs off on errors.     *)
(*   "queue"    src/unnamed/part_002: a started match that shows up in the *)
(*              match history is finished; it is put on finishedQueue and  *)
(*              its details are fetched on every cycle until the fetch     *)
(*              succeeds or the entry is older than ten minutes.           *)
(* Time is counted in minutes.                                             *)
(***************************************************************************)
EXTENDS Integers, Sequences, FiniteSets, TLC

\* ---------------------------------------------------------------- bounds
\* The clock stops the poll loop of Spec at MaxTime minutes and that of
\* SpecRetry, which follows queue entries past their deadline, at
\* MaxRetryTime minutes.
MaxTime == 1
MaxRetryTime == 12
\* Longest list of games in one live-games response.
MaxGames == 2
\* Longest list of matches in one match-history response.
MaxHistory == 2
\* Longest time, beyond the interval, from one cycle to the next.
MaxDelay == 1
\* Longest channel list of the absence-based bot.
MaxChannels == 1
\* Longest duration, highest pick count of one team and highest score of the
\* inputs the pure functions are applied to.
MaxDuration == 2
MaxPicks == 5
MaxScore == 2
\* Longest channel list of the absence-based bot when the locking of the
\* list is followed step by step.
MaxRegistered == 2
\* The count of failed live fetches in a row stops at this value.
MaxFailures == 4
\* Longest channel list of the GuildCreate event that is followed through
\* onGuildCreate.
MaxGuildChannels == 2

\* ------------------------------------------------------- program constants
\* updateInterval = 60 * time.Second, in minutes.
updateInterval == 1
\* The retry deadline of a finished-queue entry, 10*time.Minute.
RetryDeadline == 10
\* MatchUpdateInterval = 60 * time.Second, in minutes.
MatchUpdateInterval == 1
\* The ceiling of the back-off, 15*time.Minute.
MaxFetchWait == 15
\* The pick count from which a game counts as started.
StartedPicks == 9
\* limitRequestsPerSecond = 1.0 of the API client.
limitRequestsPerSecond == 1
\* time.Second: the API client's time is counted in seconds.
Second == 1
\* The capacity of the API client's rate limit channel.
RateLimitCap == 1

\* ------------------------------------------------------------ input values
\* All sequences over S of length at most n.
SeqUpTo(S, n) == UNION {[1..k -> S] : k \in 0..n}

MatchIDs == {1, 2}
Guilds == {"g1"}
ChannelIDs == {"c1"}
\* The game number and the scoreboard of a live game: game 1 in the draft
\* with eight picks, and with nine picks and no time played.
GameStates ==
    {[GameNumber |-> 1, Duration |-> 0, DirePicks |-> 4, RadiantPicks |-> 4],
     [GameNumber |-> 1, Duration |-> 0, DirePicks |-> 5, RadiantPicks |-> 4]}

\* The game of the retry scenario: game 1, being played.
PlayedStates ==
    {[GameNumber |-> 1, Duration |-> 1, DirePicks |-> 5, RadiantPicks |-> 5]}

\* The games of the series scenario: game 1 and game 2, being played.
SeriesStates ==
    {[GameNumber |-> 1, Duration |-> 1, DirePicks |-> 5, RadiantPicks |-> 5],
     [GameNumber |-> 2, Duration |-> 1, DirePicks |-> 5, RadiantPicks |-> 5]}

\* dota.LiveLeagueGame, reduced to the fields the tracker reads: the match
\* id, the game number, the scoreboard's duration and the lengths of the two
\* pick lists.
LiveLeagueGame(states) ==
    {[MatchID |-> id, GameNumber |-> g.GameNumber, Duration |-> g.Duration,
      DirePicks |-> g.DirePicks, RadiantPicks |-> g.RadiantPicks] :
        id \in MatchIDs, g \in states}

\* discordgo.Channel, reduced to the fields onGuildCreate reads.
GuildChannel ==
    [ID : ChannelIDs, Type : {"text", "voice"}, Position : {0, 1}]

\* The channel lists of the GuildCreate events of Spec.
GuildChannelLists == SeqUpTo(GuildChannel, 1)

\* The guilds and the channels of the registry scenario, and the channel
\* lists of its GuildCreate events.
RegistryGuilds == {"g1", "g2", "g3"}

RegistryChannelIDs == {"c1", "c2", "c3", "c4"}

RegistryChannelLists ==
    SeqUpTo([ID : RegistryChannelIDs, Type : {"text", "voice"},
             Position : {0, 1}], 1)

\* The responses GetLiveLeagueGames can deliver.
LiveGamesResponses == SeqUpTo(LiveLeagueGame(GameStates), MaxGames)

\* The responses of the retry scenario.
PlayedGamesResponses == SeqUpTo(LiveLeagueGame(PlayedStates), MaxGames)

\* The responses of the series scenario.
SeriesGamesResponses == SeqUpTo(LiveLeagueGame(SeriesStates), MaxGames)

\* The responses GetMatchHistory can deliver.
MatchHistoryResponses == SeqUpTo(MatchIDs, MaxHistory)

\* The match ids of a list of games.
GameIDs(games) == {games[i].MatchID : i \in 1..Len(games)}

\* The elements of a sequence.
Range(s) == {s[i] : i \in 1..Len(s)}

\* How often x occurs in the sequence s.
Occurrences(s, x) == Cardinality({i \in 1..Len(s) : s[i] = x})

Min(a, b) == IF a <= b THEN a ELSE b

\* ------------------------------------------------------------------- state
VARIABLES
    tracker,          \* which generation of the bot runs
    pc,               \* the poll loop's position
    now,              \* the wall clock, in minutes
    fetchWait,        \* run's back-off wait (absence-based bot), in minutes
    matchesDrafting,  \* match ids seen in the drafting phase
    matchesStarted,   \* match ids seen started
    matchesFinished,  \* match ids that were started and are finished
    gameNumbers,      \* match id -> game number of its latest live game
    finishedQueue,    \* finished matches whose details are yet to be fetched
    channels,         \* queue-based bot: channel id -> guild id
    channelList,      \* absence-based bot: list of channel ids
    liveOk,           \* whether the latest live-games fetch succeeded
    missed,           \* match id -> latest fetched live games in a row
                      \* without it: 0, 1, or 2 for two and more
    firstSeen,        \* match id -> how its first live game was classified
    sentDrafting,     \* match id -> times announced as drafting
    sentStarted,      \* match id -> times announced as started
    sentFinished,     \* match id -> times announced as finished
    outcomeGame,      \* match id -> <<game number of its announced outcome>>
    lastNumber,       \* match id -> <<its game number in the latest live
                      \* games that held it>>
    failures,         \* absence-based bot: GetLiveLeagueGames calls that
                      \* failed since the latest one that succeeded
    traced,           \* whether the messages of a cycle are recorded
    posted,           \* the sendTemplateMessage calls of the cycle, in order
    lookups,          \* match id -> GetMatchDetails calls made for it
    enqueued,         \* match id -> entries ever put on finishedQueue
    givenUp,          \* match ids whose queue entry was dropped
    cancelled,        \* whether main's context has been cancelled
    runErr,           \* the error bot.run returned, <<err>>; <<>> before
    exit,             \* how main ended: "running", "normal" or "fault"
    call,             \* the pure function applied and its argument
    result,           \* what the function returned, <<v>>; <<>> before
    rateLimitCh,      \* dota.Client: tokens in the rate limit channel
    returning,        \* the goroutines that return a token: for each, the
                      \* seconds it still sleeps
    sinceStart,       \* seconds since the latest HTTP request was started,
                      \* counted up to Second
    query,            \* caller -> where its getJSON call is
    channelsMu,       \* absence-based bot: who holds channelsMu, as readers
                      \* and as writers
    sending,          \* where the poll loop's sendMessage is
    handling          \* handler goroutine -> where its event handler is

matchVars == <<matchesDrafting, matchesStarted, matchesFinished, gameNumbers>>
sentVars ==
    <<sentDrafting, sentStarted, sentFinished, outcomeGame, traced, posted>>
registryVars == <<channels, channelList>>
liveVars == <<liveOk, missed, firstSeen, lastNumber, failures>>
queueVars == <<finishedQueue, lookups, enqueued, givenUp>>
pureVars == <<call, result>>
runVars == <<cancelled, runErr, exit>>
\* The variables the tracker's steps leave alone.
clientVars == <<rateLimitCh, returning, sinceStart, query>>
\* The variables of the API client and of the locking of the channel list.
lockVars == <<channelsMu, sending, handling>>
sideVars == <<clientVars, lockVars>>
otherVars == <<pureVars, runVars, sideVars>>

\* The variables of the bot and its poll loop.
botVars == <<tracker, pc, now, fetchWait, matchVars, sentVars, registryVars,
             liveVars, queueVars>>

vars == <<botVars, otherVars>>

\* The counters of the history variables stop at this value.
CountCap == RetryDeadline + 4

\* f with the count of every element of the sequence s raised by its number
\* of occurrences.
Counted(f, s) ==
    [m \in DOMAIN f |-> Min(CountCap, f[m] + Occurrences(s, m))]

\* f with the count of every element of the set S raised by one.
CountedSet(f, S) ==
    [m \in DOMAIN f |-> IF m \in S THEN Min(CountCap, f[m] + 1) ELSE f[m]]

Zero == [m \in MatchIDs |-> 0]

\* missed after the live games of a response have been fetched: 0 for a
\* match among them, 1 for a match missing from them but not from the games
\* fetched before, 2 for a match missing from both.
Missed(games) ==
    [m \in MatchIDs |-> IF m \in GameIDs(games) THEN 0
                        ELSE IF missed[m] = 0 THEN 1 ELSE 2]

\* lastNumber after the live games of a response have been fetched: the game
\* number of the last game listed for the match, if one is listed.
LastNumber(games) ==
    [m \in MatchIDs |->
        IF m \notin GameIDs(games) THEN lastNumber[m]
        ELSE LET i == CHOOSE k \in 1..Len(games) :
                          /\ games[k].MatchID = m
                          /\ \A j \in (k + 1)..Len(games) :
                                 games[j].MatchID # m
             IN <<games[i].GameNumber>>]

\* ------------------------------------------------------------ isGameStarted
\* A classification that waits for all ten picks (C11).
isGameStartedTenPicks(game) ==
    \/ game.Duration > 0
    \/ game.DirePicks + game.RadiantPicks >= StartedPicks + 1

isGameStarted(game) ==
    \/ game.Duration > 0
    \/ game.DirePicks + game.RadiantPicks >= StartedPicks

\* firstSeen after the live games of a response have been fetched: a match
\* seen for the first time is classified by its first game in the list.
FirstSeen(games) ==
    [m \in MatchIDs |->
        IF firstSeen[m] # "none" \/ m \notin GameIDs(games) THEN firstSeen[m]
        ELSE LET i == CHOOSE k \in 1..Len(games) :
                          /\ games[k].MatchID = m
                          /\ \A j \in 1..(k - 1) : games[j].MatchID # m
             IN IF isGameStarted(games[i]) THEN "started" ELSE "drafting"]

\* ---------------------------------------------------------- updateLiveGames
\* A cache that keeps the first game number seen for a match (C13).
CacheGameNumberOnce(numbers, game) ==
    IF game.MatchID \in DOMAIN numbers THEN numbers
    ELSE (game.MatchID :> game.GameNumber) @@ numbers

\* bot.gameNumbers[game.MatchID] = game.GameNumber
CacheGameNumber(numbers, game) ==
    (game.MatchID :> game.GameNumber) @@ numbers

\* bot.gameNumbers[id]: the zero value for a match that is not in the map.
CachedGameNumber(numbers, id) ==
    IF id \in DOMAIN numbers THEN numbers[id] ELSE 0

\* A marking that forgets the matches seen before (C7).
MarkSeenOnly(seen, id) == {id}

\* A match id put into one of the three maps of seen matches.
MarkSeen(seen, id) == seen \cup {id}

\* Whether the loop reports a game that is not started as newly drafting.
IsNewDrafting(id, drafting, started) == id \notin drafting

\* Whether the loop reports a started game as newly started.
IsNewStarted(id, started) == id \notin started

\* The loop over the games of a response: st carries the two maps the loop
\* writes, the game-number map, and the two lists it builds.
RECURSIVE IngestGames(_, _)
IngestGames(games, st) ==
    IF games = <<>> THEN st
    ELSE
      LET game == Head(games)
          id == game.MatchID
          st1 == [st EXCEPT !.gameNumbers = CacheGameNumber(@, game)]
          st2 ==
            IF ~isGameStarted(game)
            THEN IF IsNewDrafting(id, st1.drafting, st1.started)
                 THEN [st1 EXCEPT !.newDrafting = Append(@, id),
                                  !.drafting = MarkSeen(@, id)]
                 ELSE st1
            ELSE IF IsNewStarted(id, st1.started)
                 THEN [st1 EXCEPT !.newStarted = Append(@, id),
                                  !.started = MarkSeen(@, id)]
                 ELSE st1
      IN IngestGames(Tail(games), st2)

\* sendTemplateMessage(tmpl, data, tts), called when the list is not
\* empty: the kind of the template and the tts flag of the call.
DraftingMessage(newDrafting) ==
    IF newDrafting # << >> THEN <<[kind |-> "drafting", tts |-> FALSE]>>
    ELSE << >>

\* A started message that is not read out (C25).
StartedMessagePlain(newStarted) ==
    IF newStarted # << >> THEN <<[kind |-> "started", tts |-> FALSE]>>
    ELSE << >>

StartedMessage(newStarted) ==
    IF newStarted # << >> THEN <<[kind |-> "started", tts |-> TRUE]>>
    ELSE << >>

FinishedMessage(newFinished) ==
    IF newFinished # << >> THEN <<[kind |-> "finished", tts |-> TRUE]>>
    ELSE << >>

\* The started message sent ahead of the drafting message (C29).
LiveGamesMessagesStartedFirst(newDrafting, newStarted) ==
    StartedMessage(newStarted) \o DraftingMessage(newDrafting)

\* The messages that follow the loop over the games of a response.
LiveGamesMessages(newDrafting, newStarted) ==
    DraftingMessage(newDrafting) \o StartedMessage(newStarted)

\* The record of the cycle's messages after msgs have been sent.
Posted(msgs) == IF traced THEN posted \o msgs ELSE posted

\* The state the loop starts from.
IngestStart ==
    [drafting |-> matchesDrafting, started |-> matchesStarted,
     gameNumbers |-> gameNumbers, newDrafting |-> <<>>, newStarted |-> <<>>]

\* updateLiveGames when GetLiveLeagueGames fails: log and return.
updateLiveGamesErr ==
    /\ tracker = "queue"
    /\ pc = "live"
    /\ pc' = "finished"
    /\ liveOk' = FALSE
    /\ UNCHANGED <<otherVars,
                   tracker, now, fetchWait, matchVars, sentVars,
                   registryVars, missed, firstSeen, lastNumber, failures,
                   queueVars>>

\* updateLiveGames on the response games.
updateLiveGames(games) ==
    /\ tracker = "queue"
    /\ pc = "live"
    /\ ~cancelled
    /\ \E st \in {IngestGames(games, IngestStart)} :
          /\ matchesDrafting' = st.drafting
          /\ matchesStarted' = st.started
          /\ gameNumbers' = st.gameNumbers
          /\ sentDrafting' = Counted(sentDrafting, st.newDrafting)
          /\ sentStarted' = Counted(sentStarted, st.newStarted)
          /\ posted' = Posted(LiveGamesMessages(st.newDrafting,
                                                st.newStarted))
    /\ liveOk' = TRUE
    /\ missed' = Missed(games)
    /\ firstSeen' = FirstSeen(games)
    /\ lastNumber' = LastNumber(games)
    /\ pc' = "finished"
    /\ UNCHANGED <<otherVars,
                   tracker, now, fetchWait, matchesFinished, sentFinished,
                   outcomeGame, traced, failures, registryVars, queueVars>>

\* ------------------------------------------------------ updateFinishedGames
\* A detection that does not ask whether the match is already finished (C6).
IsNewFinishedAgain(id, started, finished) == id \in started

\* A detection that does not ask whether the match has started (C8).
IsNewFinishedAnyMatch(id, started, finished) == id \notin finished

\* Whether the loop over the match history takes a match for newly finished.
IsNewFinished(id, started, finished) == id \in started /\ id \notin finished

\* An entry stamped with the start of the process, not the current time (C3).
NewEntryUnstamped(id) == [MatchID |-> id, AddedAt |-> 0]

\* The queue entry of a match found finished now.
NewEntry(id) == [MatchID |-> id, AddedAt |-> now]

\* The loop over the matches of a match-history response.
RECURSIVE MarkFinished(_, _)
MarkFinished(matches, st) ==
    IF matches = <<>> THEN st
    ELSE
      LET id == Head(matches)
          st1 ==
            IF IsNewFinished(id, matchesStarted, st.finished)
            THEN [st EXCEPT !.finished = MarkSeen(@, id),
                            !.queue = Append(@, NewEntry(id)),
                            !.added = Append(@, id)]
            ELSE st
      IN MarkFinished(Tail(matches), st1)

\* updateFinishedGames when every started match is finished already: the
\* match history is not fetched.
updateFinishedGamesSkip ==
    /\ tracker = "queue"
    /\ pc = "finished"
    /\ Cardinality(matchesStarted) = Cardinality(matchesFinished)
    /\ pc' = "details"
    /\ UNCHANGED <<otherVars,
                   tracker, now, fetchWait, matchVars, sentVars,
                   registryVars, liveVars, queueVars>>

\* A failed GetMatchHistory that ends run with the error (C14).
updateFinishedGamesErrFatal ==
    /\ tracker = "queue"
    /\ pc = "finished"
    /\ Cardinality(matchesStarted) # Cardinality(matchesFinished)
    /\ pc' = "done"
    /\ runErr' = <<[msg |-> "Error getting match history"]>>
    /\ UNCHANGED <<tracker, now, fetchWait, matchVars, sentVars,
                   registryVars, liveVars, queueVars, pureVars, sideVars,
                   cancelled, exit>>

\* updateFinishedGames when GetMatchHistory fails: log and return.
updateFinishedGamesErr ==
    /\ tracker = "queue"
    /\ pc = "finished"
    /\ Cardinality(matchesStarted) # Cardinality(matchesFinished)
    /\ pc' = "details"
    /\ UNCHANGED <<otherVars,
                   tracker, now, fetchWait, matchVars, sentVars,
                   registryVars, liveVars, queueVars>>

\* updateFinishedGames on the match-history response matches.
updateFinishedGames(matches) ==
    /\ tracker = "queue"
    /\ pc = "finished"
    /\ ~cancelled
    /\ Cardinality(matchesStarted) # Cardinality(matchesFinished)
    /\ LET st == MarkFinished(matches, [finished |-> matchesFinished,
                                        queue |-> finishedQueue,
                                        added |-> <<>>])
       IN /\ matchesFinished' = st.finished
          /\ finishedQueue' = st.queue
          /\ enqueued' = Counted(enqueued, st.added)
    /\ pc' = "details"
    /\ UNCHANGED <<otherVars,
                   tracker, now, fetchWait, matchesDrafting, matchesStarted,
                   gameNumbers, sentVars, registryVars, liveVars, lookups,
                   givenUp>>

\* ------------------------------------------------ outcome of a finished match
TeamNames == {"A", "B"}

\* dota.MatchDetails
MatchDetails ==
    [RadiantWin : BOOLEAN, RadiantName : TeamNames, DireName : TeamNames,
     RadiantScore : 0..MaxScore, DireScore : 0..MaxScore]

\* An item that takes the names of the winner's side but the scores in the
\* order radiant, dire (C12).
matchesFinishedDataItemScores(gameNumber, details) ==
    [GameNumber |-> gameNumber,
     WinnerName |-> IF details.RadiantWin THEN details.RadiantName
                    ELSE details.DireName,
     LoserName |-> IF details.RadiantWin THEN details.DireName
                   ELSE details.RadiantName,
     WinnerScore |-> details.RadiantScore,
     LoserScore |-> details.DireScore]

\* The item fetchFinishedMatchDetails builds from the details of a match and
\* its cached game number.
matchesFinishedDataItem(gameNumber, details) ==
    IF details.RadiantWin
    THEN [GameNumber |-> gameNumber,
          WinnerName |-> details.RadiantName,
          LoserName |-> details.DireName,
          WinnerScore |-> details.RadiantScore,
          LoserScore |-> details.DireScore]
    ELSE [GameNumber |-> gameNumber,
          WinnerName |-> details.DireName,
          LoserName |-> details.RadiantName,
          WinnerScore |-> details.DireScore,
          LoserScore |-> details.RadiantScore]

\* The line tmplMatchesFinished prints for an item.
tmplMatchesFinished(item) ==
    <<"Match Ended: ", item.WinnerName, " defeated ", item.LoserName,
      " (", item.WinnerScore, " - ", item.LoserScore,
      ", Game ", item.GameNumber, ")">>

\* The line tmplGamesFinishedTTS of the absence-based bot prints for the
\* item gameFinishedTTSDataItem{MatchDetails: details, GameNumber: n}.
tmplGamesFinishedTTS(item) ==
    IF item.MatchDetails.RadiantWin
    THEN <<"Match Ended: ", item.MatchDetails.RadiantName, " defeated ",
           item.MatchDetails.DireName,
           " (", item.MatchDetails.RadiantScore, " - ",
           item.MatchDetails.DireScore, ", Game ", item.GameNumber, ")">>
    ELSE <<"Match Ended: ", item.MatchDetails.DireName, " defeated ",
           item.MatchDetails.RadiantName,
           " (", item.MatchDetails.DireScore, " - ",
           item.MatchDetails.RadiantScore, ", Game ", item.GameNumber, ")">>

\* The details the tracker's specifications let GetMatchDetails deliver.
PlayedOut ==
    [RadiantWin |-> TRUE, RadiantName |-> "A", DireName |-> "B",
     RadiantScore |-> 2, DireScore |-> 1]

\* outcomeGame after the items were announced, the k-th for the match ids[k].
OutcomeGame(ids, items) ==
    [m \in MatchIDs |->
        IF \E k \in 1..Len(ids) : ids[k] = m
        THEN LET k == CHOOSE i \in 1..Len(ids) :
                          /\ ids[i] = m
                          /\ \A j \in (i + 1)..Len(ids) : ids[j] # m
             IN <<items[k].GameNumber>>
        ELSE outcomeGame[m]]

\* The elements of a set in some order, as the range over a Go map gives.
SetToSeq(S) ==
    CHOOSE f \in [1..Cardinality(S) -> S] :
        \A x \in S : \E i \in DOMAIN f : f[i] = x

\* ------------------------------------------------ fetchFinishedMatchDetails
\* A retry test that never gives up (C4).
RetryEntryForever(entry) == TRUE

\* A retry test that gives up at the deadline, not after it (C5).
RetryEntryStrict(entry) == now - entry.AddedAt < RetryDeadline

\* Whether a failed entry is tried again: time.Since(entry.AddedAt) <= 10 min.
RetryEntry(entry) == now - entry.AddedAt <= RetryDeadline

\* An entry put back with a fresh enqueue time (C28).
KeepEntryRestamped(remainingQueue, entry) ==
    Append(remainingQueue, [entry EXCEPT !.AddedAt = now])

\* remainingQueue = append(remainingQueue, entry)
KeepEntry(remainingQueue, entry) == Append(remainingQueue, entry)

\* The loop over the queue: ok[i] says whether GetMatchDetails succeeds for
\* the i-th entry.  st carries remainingQueue, finishedDetails, the ids
\* fetched, the ids of the matches of finishedDetails and the ids of the
\* entries given up on.
RECURSIVE DrainQueue(_, _, _)
DrainQueue(queue, ok, st) ==
    IF queue = <<>> THEN st
    ELSE
      LET entry == Head(queue)
          i == Len(st.fetched) + 1
          st1 == [st EXCEPT !.fetched = Append(@, entry.MatchID)]
          st2 ==
            IF ~ok[i]
            THEN IF RetryEntry(entry)
                 THEN [st1 EXCEPT !.remainingQueue = KeepEntry(@, entry)]
                 ELSE [st1 EXCEPT !.givenUp = @ \cup {entry.MatchID}]
            ELSE [st1 EXCEPT
                    !.finishedDetails =
                        Append(@, matchesFinishedDataItem(
                                      CachedGameNumber(gameNumbers,
                                                       entry.MatchID),
                                      PlayedOut)),
                    !.announced = Append(@, entry.MatchID)]
      IN DrainQueue(Tail(queue), ok, st2)

\* fetchFinishedMatchDetails, with the outcome ok of each GetMatchDetails.
fetchFinishedMatchDetails(ok) ==
    /\ tracker = "queue"
    /\ pc = "details"
    /\ cancelled => \A i \in DOMAIN ok : ~ok[i]
    /\ LET st == DrainQueue(finishedQueue, ok,
                            [remainingQueue |-> <<>>,
                             finishedDetails |-> <<>>, announced |-> <<>>,
                             fetched |-> <<>>, givenUp |-> {}])
       IN /\ finishedQueue' = st.remainingQueue
          /\ sentFinished' = Counted(sentFinished, st.announced)
          /\ outcomeGame' = OutcomeGame(st.announced, st.finishedDetails)
          /\ lookups' = Counted(lookups, st.fetched)
          /\ givenUp' = givenUp \cup st.givenUp
          /\ posted' = Posted(FinishedMessage(st.finishedDetails))
    /\ pc' = "sleep"
    /\ UNCHANGED <<otherVars,
                   tracker, now, fetchWait, matchVars, sentDrafting,
                   sentStarted, traced, registryVars, liveVars, enqueued>>

\* ------------------------------------------------- run (queue-based bot)
\* The select at the end of a cycle: time.After(updateInterval) fires before
\* the context is done, and the next cycle starts updateInterval + extra
\* after this one.
sleep(extra) ==
    /\ tracker = "queue"
    /\ pc = "sleep"
    /\ ~cancelled
    /\ now' = now + updateInterval + extra
    /\ pc' = "live"
    /\ posted' = << >>
    /\ UNCHANGED <<otherVars,
                   tracker, fetchWait, matchVars, sentDrafting, sentStarted,
                   sentFinished, outcomeGame, traced, registryVars, liveVars,
                   queueVars>>

\* ------------------------------- handleLiveGamesUpdated (absence-based bot)
\* A detection that finds a finished match finished again (C2).
NoLongerLiveAgain(started, finished, liveGames) ==
    {id \in started : id \notin GameIDs(liveGames)}

\* The started games that are not finished and not among the live games.
NoLongerLive(started, finished, liveGames) ==
    {id \in started \ finished : id \notin GameIDs(liveGames)}

\* A wait that is never cut down to the ceiling (C24).
CappedWaitNone(w) == w

\* The wait of run after its adjustment, at most 15 minutes.
CappedWait(w) == IF w > MaxFetchWait THEN MaxFetchWait ELSE w

\* The games handleLiveGamesUpdated finds finished on the response liveGames.
FinishedNow(liveGames) ==
    NoLongerLive(IngestGames(liveGames, IngestStart).started,
                 matchesFinished, liveGames)

\* Games marked finished only when their details were fetched (C30).
GamesFinishedOnSuccess(finished, finishedNow, okIDs) == finished \cup okIDs

\* bot.gamesFinished[gameID] = true ahead of GetMatchDetails, whatever the
\* call returns.
GamesFinished(finished, finishedNow, okIDs) == finished \cup finishedNow

\* A failed GetLiveLeagueGames handled like a response without games: every
\* started match is found finished and looked up (C15).
runLiveGamesErrAsEmpty ==
    /\ tracker = "absence"
    /\ pc = "live"
    /\ fetchWait' = CappedWait(fetchWait * 2)
    /\ liveOk' = FALSE
    /\ matchesFinished' = matchesFinished \cup matchesStarted
    /\ lookups' = CountedSet(lookups, matchesStarted \ matchesFinished)
    /\ failures' = Min(failures + 1, MaxFailures)
    /\ pc' = "sleep"
    /\ UNCHANGED <<otherVars,
                   tracker, now, matchesDrafting, matchesStarted,
                   gameNumbers, sentVars, registryVars, missed, firstSeen,
                   lastNumber, finishedQueue, enqueued, givenUp>>

\* run when GetLiveLeagueGames fails: the wait is doubled.
runLiveGamesErr ==
    /\ tracker = "absence"
    /\ pc = "live"
    /\ fetchWait' = CappedWait(fetchWait * 2)
    /\ liveOk' = FALSE
    /\ failures' = Min(failures + 1, MaxFailures)
    /\ pc' = "sleep"
    /\ UNCHANGED <<otherVars,
                   tracker, now, matchVars, sentVars, registryVars, missed,
                   firstSeen, lastNumber, queueVars>>

\* run when GetLiveLeagueGames delivers liveGames: the wait is reset and
\* handleLiveGamesUpdated runs; GetMatchDetails succeeds for the newly
\* finished games in okIDs.
handleLiveGamesUpdated(liveGames, okIDs) ==
    /\ tracker = "absence"
    /\ pc = "live"
    /\ ~cancelled
    /\ \E st \in {IngestGames(liveGames, IngestStart)} :
       \E finishedNow \in {NoLongerLive(st.started, matchesFinished,
                                        liveGames)} :
          /\ okIDs \subseteq finishedNow
          /\ matchesDrafting' = st.drafting
          /\ matchesStarted' = st.started
          /\ gameNumbers' = st.gameNumbers
          /\ matchesFinished' = GamesFinished(matchesFinished, finishedNow,
                                              okIDs)
          /\ lookups' = CountedSet(lookups, finishedNow)
          /\ sentDrafting' = Counted(sentDrafting, st.newDrafting)
          /\ sentStarted' = Counted(sentStarted, st.newStarted)
          /\ sentFinished' = CountedSet(sentFinished, okIDs)
          /\ LET ids == SetToSeq(okIDs)
                 newFinished ==
                     [k \in DOMAIN ids |->
                         [MatchDetails |-> PlayedOut,
                          GameNumber |->
                              CachedGameNumber(st.gameNumbers, ids[k])]]
             IN /\ outcomeGame' = OutcomeGame(ids, newFinished)
                /\ posted' = Posted(LiveGamesMessages(st.newDrafting,
                                                      st.newStarted)
                                    \o FinishedMessage(newFinished))
    /\ fetchWait' = CappedWait(MatchUpdateInterval)
    /\ liveOk' = TRUE
    /\ failures' = 0
    /\ missed' = Missed(liveGames)
    /\ firstSeen' = FirstSeen(liveGames)
    /\ lastNumber' = LastNumber(liveGames)
    /\ pc' = "sleep"
    /\ UNCHANGED <<otherVars,
                   tracker, now, traced, registryVars, finishedQueue,
                   enqueued, givenUp>>

\* The select at the end of a cycle: time.After(fetchWait) fires before the
\* context is done.  This bot never reads the clock.
sleepBackoff ==
    /\ tracker = "absence"
    /\ pc = "sleep"
    /\ ~cancelled
    /\ pc' = "live"
    /\ posted' = << >>
    /\ UNCHANGED <<otherVars,
                   tracker, now, fetchWait, matchVars, sentDrafting,
                   sentStarted, sentFinished, outcomeGame, traced,
                   registryVars, liveVars, queueVars>>

\* -------------------------------------------- channels (queue-based bot)
\* addGuildChannel
addGuildChannel(guildID, channelID) ==
    (channelID :> guildID) @@ channels

\* A removeGuildChannels that stops at the first channel it deletes (C21).
removeGuildChannelsFirst(guildID) ==
    LET hits == {d \in DOMAIN channels : channels[d] = guildID}
    IN IF hits = {} THEN channels
       ELSE LET hit == CHOOSE d \in hits : TRUE
            IN [c \in DOMAIN channels \ {hit} |-> channels[c]]

\* removeGuildChannels
removeGuildChannels(guildID) ==
    [c \in {d \in DOMAIN channels : channels[d] # guildID} |-> channels[c]]

\* The first text channel of the list, whatever its position (C31).
FirstChannelInList(chs, firstCh) ==
    LET texts == {i \in 1..Len(chs) : chs[i].Type = "text"}
    IN IF texts = {} THEN firstCh
       ELSE <<chs[CHOOSE i \in texts : \A j \in texts : i <= j]>>

\* The loop of onGuildCreate over msg.Channels: the text channel with the
\* lowest position, the first of them in the list; firstCh is <<>> for nil
\* and <<ch>> otherwise.
RECURSIVE FirstChannel(_, _)
FirstChannel(chs, firstCh) ==
    IF chs = <<>> THEN firstCh
    ELSE
      LET ch == Head(chs)
      IN IF ch.Type # "text" THEN FirstChannel(Tail(chs), firstCh)
         ELSE IF firstCh = <<>> \/ firstCh[1].Position > ch.Position
              THEN FirstChannel(Tail(chs), <<ch>>)
              ELSE FirstChannel(Tail(chs), firstCh)

\* onGuildCreate for the guild id with the channels chs.
onGuildCreate(id, chs) ==
    /\ tracker = "queue"
    /\ LET firstCh == FirstChannel(chs, <<>>)
       IN channels' = IF firstCh # <<>>
                      THEN addGuildChannel(id, firstCh[1].ID)
                      ELSE channels
    /\ UNCHANGED <<otherVars,
                   tracker, pc, now, fetchWait, matchVars, sentVars,
                   channelList, liveVars, queueVars>>

\* An onGuildDelete that also drops the finished matches still waiting for
\* their details (C26).
onGuildDeleteForget(id) ==
    /\ tracker = "queue"
    /\ channels' = removeGuildChannels(id)
    /\ finishedQueue' = << >>
    /\ UNCHANGED <<otherVars,
                   tracker, pc, now, fetchWait, matchVars, sentVars,
                   channelList, liveVars, lookups, enqueued, givenUp>>

\* onGuildDelete for the guild id.
onGuildDelete(id) ==
    /\ tracker = "queue"
    /\ channels' = removeGuildChannels(id)
    /\ UNCHANGED <<otherVars,
                   tracker, pc, now, fetchWait, matchVars, sentVars,
                   channelList, liveVars, queueVars>>

\* ------------------------------------------ channels (absence-based bot)
\* addChannel
addChannel(channelID) == Append(channelList, channelID)

\* removeChannel: the first occurrence is overwritten with the last element
\* and the list is cut by one.
removeChannel(channelID) ==
    LET hits == {i \in 1..Len(channelList) : channelList[i] = channelID}
    IN IF hits = {} THEN channelList
       ELSE LET i == CHOOSE k \in hits : \A j \in hits : k <= j
                n == Len(channelList)
            IN SubSeq([channelList EXCEPT ![i] = channelList[n]], 1, n - 1)

\* onGuildCreate of the absence-based bot: the guild id is the channel id.
onGuildCreateAbs(id) ==
    /\ tracker = "absence"
    /\ channelList' = addChannel(id)
    /\ UNCHANGED <<otherVars,
                   tracker, pc, now, fetchWait, matchVars, sentVars,
                   channels, liveVars, queueVars>>

\* onGuildDelete of the absence-based bot.
onGuildDeleteAbs(id) ==
    /\ tracker = "absence"
    /\ channelList' = removeChannel(id)
    /\ UNCHANGED <<otherVars,
                   tracker, pc, now, fetchWait, matchVars, sentVars,
                   channels, liveVars, queueVars>>

\* ------------------------------- channelsMu (absence-based bot), step by step
\* The goroutines that run an event handler at the same time.
Handlers == {"h1", "h2"}

\* The guilds of the membership events.
MemberGuilds == {"g1", "g2"}

\* The bot's variables but the channel list.
listlessVars == <<tracker, pc, now, fetchWait, matchVars, sentVars, channels,
                  liveVars, queueVars>>

\* A Lock that does not wait for the readers (C20).
CanLockWithReaders(mu) == mu.writers = {}

\* sync.RWMutex: Lock waits for the readers and the writer to be gone,
\* RLock for the writer.
CanLock(mu) == mu.readers = {} /\ mu.writers = {}

CanRLock(mu) == mu.writers = {}

\* The zero RWMutex of NewBot; no message is being sent and no event handled.
Unlocked ==
    /\ channelsMu = [readers |-> {}, writers |-> {}]
    /\ sending = [pc |-> "idle"]
    /\ handling = [h \in Handlers |-> [pc |-> "idle"]]

\* The poll loop calls sendMessage.
sendMessage ==
    /\ sending.pc \in {"idle", "done"}
    /\ sending' = [pc |-> "rlock"]
    /\ UNCHANGED <<botVars, pureVars, runVars, clientVars, channelsMu,
                   handling>>

\* RLock returns and the range statement reads bot.channels.
RLock ==
    /\ sending.pc = "rlock"
    /\ CanRLock(channelsMu)
    /\ channelsMu' = [channelsMu EXCEPT !.readers = @ \cup {"loop"}]
    /\ sending' = [pc |-> "range", snapshot |-> channelList,
                   n |-> Len(channelList), i |-> 1, sent |-> << >>,
                   logged |-> 0]
    /\ UNCHANGED <<botVars, pureVars, runVars, clientVars, handling>>

\* One round of the loop of sendMessage: the message goes to the channel at
\* the index, if the list still reaches that far; when the send fails (err)
\* the error is logged and the loop goes on.
ChannelMessageSend(err) ==
    /\ sending.pc = "range"
    /\ sending.i <= sending.n
    /\ sending' = [sending EXCEPT
                      !.i = @ + 1,
                      !.sent = IF sending.i <= Len(channelList)
                               THEN Append(@, channelList[sending.i])
                               ELSE @,
                      !.logged = IF err THEN @ + 1 ELSE @]
    /\ UNCHANGED <<botVars, pureVars, runVars, clientVars, channelsMu,
                   handling>>

\* The loop is over and the deferred RUnlock runs.
RUnlock ==
    /\ sending.pc = "range"
    /\ sending.i > sending.n
    /\ channelsMu' = [channelsMu EXCEPT !.readers = @ \ {"loop"}]
    /\ sending' = [pc |-> "done", snapshot |-> sending.snapshot,
                   sent |-> sending.sent, logged |-> sending.logged]
    /\ UNCHANGED <<botVars, pureVars, runVars, clientVars, handling>>

\* The session starts a handler for a guild event: op is "add" for
\* onGuildCreate and "remove" for onGuildDelete.
guildEvent(h, op, id) ==
    /\ handling[h].pc = "idle"
    /\ op = "add" =>
           Len(channelList)
           + Cardinality({g \in Handlers : handling[g].pc # "idle"
                                           /\ handling[g].op = "add"})
           < MaxRegistered
    /\ handling' = [handling EXCEPT ![h] =
                        [pc |-> "lock", op |-> op, id |-> id]]
    /\ UNCHANGED <<botVars, pureVars, runVars, clientVars, channelsMu,
                   sending>>

\* Lock returns in addChannel or removeChannel.
Lock(h) ==
    /\ handling[h].pc = "lock"
    /\ CanLock(channelsMu)
    /\ channelsMu' = [channelsMu EXCEPT !.writers = @ \cup {h}]
    /\ handling' = [handling EXCEPT ![h].pc = "locked"]
    /\ UNCHANGED <<botVars, pureVars, runVars, clientVars, sending>>

\* addChannel or removeChannel changes the list and the deferred Unlock
\* runs.
Unlock(h) ==
    /\ handling[h].pc = "locked"
    /\ channelList' = IF handling[h].op = "add"
                      THEN addChannel(handling[h].id)
                      ELSE removeChannel(handling[h].id)
    /\ channelsMu' = [channelsMu EXCEPT !.writers = @ \ {h}]
    /\ handling' = [handling EXCEPT ![h] = [pc |-> "idle"]]
    /\ UNCHANGED <<listlessVars, pureVars, runVars, clientVars, sending>>

\* ------------------------------------------------------ cancellation, main
\* context.Canceled, and errors.Wrap and errors.Cause of pkg/errors: Wrap
\* puts a message around an error, Cause takes all of them off.
Canceled == [msg |-> "context canceled"]

Wrap(err, msg) == [msg |-> msg, cause |-> err]

\* A Cause that returns the error it is given (C16).
CauseOutermost(err) == err

RECURSIVE Cause(_)
Cause(err) == IF "cause" \in DOMAIN err THEN Cause(err.cause) ELSE err

\* main's goroutine that waits for a stop signal and cancels the context.
cancel ==
    /\ exit = "running"
    /\ ~cancelled
    /\ cancelled' = TRUE
    /\ UNCHANGED <<botVars, pureVars, sideVars, runErr, exit>>

\* The select of the queue-based bot's run when the context is done: run
\* returns ctx.Err().
runDone ==
    /\ tracker = "queue"
    /\ pc = "sleep"
    /\ cancelled
    /\ pc' = "done"
    /\ runErr' = <<Canceled>>
    /\ UNCHANGED <<tracker, now, fetchWait, matchVars, sentVars,
                   registryVars, liveVars, queueVars, pureVars, sideVars,
                   cancelled, exit>>

\* The same select of the absence-based bot's run.
runDoneBackoff ==
    /\ tracker = "absence"
    /\ pc = "sleep"
    /\ cancelled
    /\ pc' = "done"
    /\ runErr' = <<Canceled>>
    /\ UNCHANGED <<tracker, now, fetchWait, matchVars, sentVars,
                   registryVars, liveVars, queueVars, pureVars, sideVars,
                   cancelled, exit>>

\* bot.Run wraps what run returned, and main tells a cancellation from a
\* fault by the cause of the error.
mainReturn ==
    /\ pc = "done"
    /\ exit = "running"
    /\ LET err == Wrap(runErr[1], "Error during run")
       IN exit' = IF Cause(err) = Canceled THEN "normal" ELSE "fault"
    /\ UNCHANGED <<botVars, pureVars, sideVars, cancelled, runErr>>

\* ---------------------------------------------- dota.Client: getJSON
\* The goroutines that call the client at the same time.
Callers == {"loop", "other"}

Endpoints ==
    {"GetHeroes", "GetLiveLeagueGames", "GetMatchHistory", "GetMatchDetails"}

\* What a decoded body holds of the fields the checks read: result.status,
\* and whether result.error and the match details are there.  A field the
\* body lacks decodes to zero, to no error and to no details.
Bodies ==
    {[Status |-> 200, Error |-> FALSE, MatchDetails |-> FALSE],
     [Status |-> 1, Error |-> FALSE, MatchDetails |-> FALSE],
     [Status |-> 0, Error |-> FALSE, MatchDetails |-> TRUE],
     [Status |-> 0, Error |-> TRUE, MatchDetails |-> TRUE],
     [Status |-> 0, Error |-> TRUE, MatchDetails |-> FALSE]}

\* What http.DefaultClient.Do and the decoder can make of one request: no
\* response, a response with a bad status code, a body that is no JSON, a
\* body that decodes.
HTTPResponses ==
    {[sent |-> FALSE]}
    \cup {[sent |-> TRUE, StatusCode |-> 500]}
    \cup {[sent |-> TRUE, StatusCode |-> 200, decodes |-> FALSE]}
    \cup {[sent |-> TRUE, StatusCode |-> 200, decodes |-> TRUE, Body |-> b] :
             b \in Bodies}

\* A checkResult that wants status 200 of every response (C19).
checkResultStatus200(endpoint, body) ==
    IF endpoint = "GetMatchDetails"
    THEN ~body.Error /\ body.MatchDetails
    ELSE body.Status = 200

\* checkResult of the response type of each endpoint.
checkResult(endpoint, body) ==
    CASE endpoint = "GetLiveLeagueGames" -> body.Status = 200
      [] endpoint = "GetHeroes" -> body.Status = 200
      [] endpoint = "GetMatchHistory" -> body.Status = 1
      [] endpoint = "GetMatchDetails" -> ~body.Error /\ body.MatchDetails

\* What getJSON returns once Do has returned: "nil" or the error.
getJSONErr(endpoint, res) ==
    IF ~res.sent THEN "Error sending request"
    ELSE IF res.StatusCode # 200 THEN "Bad HTTP response status code"
    ELSE IF ~res.decodes THEN "Error decoding result as JSON"
    ELSE IF ~checkResult(endpoint, res.Body) THEN "Bad steam result"
    ELSE "nil"

\* A token that goes back without a wait (C17).
TokenDelayNone(perSecond) == 0

\* time.Second / limitRequestsPerSecond, the sleep before the token goes
\* back.
TokenDelay(perSecond) == Second \div perSecond

\* A returnToken that is deferred behind the error checks (C18).
DeferredOnSuccess(err) == err = "nil"

\* Whether the return of getJSON with err runs the deferred returnToken:
\* the defer comes before every return that follows the token.
Deferred(err) == TRUE

\* Whether the caller has taken the token and not yet called returnToken.
HoldsToken(c) == query[c].pc # "idle" /\ query[c].token

\* rateLimitCh with its one token, and no call under way.
NewClient ==
    /\ rateLimitCh = RateLimitCap
    /\ returning = << >>
    /\ sinceStart = Second
    /\ query = [c \in Callers |-> [pc |-> "idle"]]

\* A Get... method makes its request and calls getJSON, which waits for
\* the token.
callGetJSON(c, endpoint) ==
    /\ query[c].pc \in {"idle", "returned"}
    /\ query' = [query EXCEPT ![c] =
                     [pc |-> "token", endpoint |-> endpoint, token |-> FALSE,
                      requests |-> 0]]
    /\ UNCHANGED <<botVars, pureVars, runVars, lockVars, rateLimitCh,
                   returning, sinceStart>>

\* getRateLimitToken receives the token.
getRateLimitToken(c) ==
    /\ query[c].pc = "token"
    /\ rateLimitCh > 0
    /\ rateLimitCh' = rateLimitCh - 1
    /\ query' = [query EXCEPT ![c].pc = "holding", ![c].token = TRUE]
    /\ UNCHANGED <<botVars, pureVars, runVars, lockVars, returning,
                   sinceStart>>

\* A getJSON that defers returnToken ahead of the error check, so that the
\* cancelled call starts a goroutine that sends a token (C27).
getRateLimitTokenDoneReturning(c) ==
    /\ query[c].pc = "token"
    /\ cancelled
    /\ query' = [query EXCEPT ![c] =
                     [pc |-> "returned", endpoint |-> @.endpoint,
                      token |-> FALSE, requests |-> @.requests,
                      res |-> << >>,
                      err |-> "Error while waiting for rate limit token"]]
    /\ returning' = Append(returning, TokenDelay(limitRequestsPerSecond))
    /\ UNCHANGED <<botVars, pureVars, runVars, lockVars, rateLimitCh,
                   sinceStart>>

\* getRateLimitToken finds the context done: getJSON returns the error, and
\* nothing is deferred.
getRateLimitTokenDone(c) ==
    /\ query[c].pc = "token"
    /\ cancelled
    /\ query' = [query EXCEPT ![c] =
                     [pc |-> "returned", endpoint |-> @.endpoint,
                      token |-> FALSE, requests |-> @.requests,
                      res |-> << >>,
                      err |-> "Error while waiting for rate limit token"]]
    /\ UNCHANGED <<botVars, pureVars, runVars, lockVars, rateLimitCh,
                   returning, sinceStart>>

\* http.DefaultClient.Do sends the request.
Do(c) ==
    /\ query[c].pc = "holding"
    /\ query' = [query EXCEPT ![c].pc = "request",
                              ![c].requests = @ + 1]
    /\ sinceStart' = 0
    /\ UNCHANGED <<botVars, pureVars, runVars, lockVars, rateLimitCh,
                   returning>>

\* Do returns, getJSON checks what came and returns; the deferred
\* returnToken starts the goroutine that sleeps and then returns the token.
getJSONReturn(c, res) ==
    /\ query[c].pc = "request"
    /\ LET err == getJSONErr(query[c].endpoint, res)
       IN /\ query' = [query EXCEPT ![c] =
                           [pc |-> "returned", endpoint |-> @.endpoint,
                            token |-> FALSE, requests |-> @.requests,
                            res |-> <<res>>, err |-> err]]
          /\ returning' =
                 IF Deferred(err)
                 THEN Append(returning, TokenDelay(limitRequestsPerSecond))
                 ELSE returning
    /\ UNCHANGED <<botVars, pureVars, runVars, lockVars, rateLimitCh,
                   sinceStart>>

\* A second passes.
tick ==
    /\ sinceStart' = Min(sinceStart + 1, Second)
    /\ returning' = [i \in DOMAIN returning |->
                        IF returning[i] > 0 THEN returning[i] - 1 ELSE 0]
    /\ UNCHANGED <<botVars, pureVars, runVars, lockVars, rateLimitCh,
                   query>>

\* A goroutine that has slept sends the token; the send waits while the
\* channel is full.
sendToken(i) ==
    /\ i \in DOMAIN returning
    /\ returning[i] = 0
    /\ rateLimitCh < RateLimitCap
    /\ rateLimitCh' = rateLimitCh + 1
    /\ returning' = [j \in 1..(Len(returning) - 1) |->
                        IF j < i THEN returning[j] ELSE returning[j + 1]]
    /\ UNCHANGED <<botVars, pureVars, runVars, lockVars, sinceStart,
                   query>>

\* ------------------------------------------------------------ specification
\* NewBot, of either generation.
NewBot ==
    /\ tracker \in {"absence", "queue"}
    /\ pc = "live"
    /\ now = 0
    /\ fetchWait = MatchUpdateInterval
    /\ matchesDrafting = {}
    /\ matchesStarted = {}
    /\ matchesFinished = {}
    /\ gameNumbers = << >>
    /\ finishedQueue = << >>
    /\ channels = << >>
    /\ channelList = << >>
    /\ liveOk = FALSE
    /\ missed = Zero
    /\ firstSeen = [m \in MatchIDs |-> "none"]
    /\ sentDrafting = Zero
    /\ sentStarted = Zero
    /\ sentFinished = Zero
    /\ outcomeGame = [m \in MatchIDs |-> << >>]
    /\ lastNumber = [m \in MatchIDs |-> << >>]
    /\ failures = 0
    /\ posted = << >>
    /\ lookups = Zero
    /\ enqueued = Zero
    /\ givenUp = {}

\* No pure function is being applied.
NoCall ==
    /\ call = [op |-> "none"]
    /\ result = << >>

\* main before the stop signal.
Running ==
    /\ cancelled = FALSE
    /\ runErr = << >>
    /\ exit = "running"

\* The messages of a cycle are not recorded.
Untraced == traced = FALSE

Init == NewBot /\ NoCall /\ Running /\ NewClient /\ Unlocked /\ Untraced

Next ==
    \/ updateLiveGamesErr
    \/ \E games \in LiveGamesResponses : updateLiveGames(games)
    \/ updateFinishedGamesSkip
    \/ updateFinishedGamesErr
    \/ \E matches \in MatchHistoryResponses : updateFinishedGames(matches)
    \/ \E ok \in [1..Len(finishedQueue) -> BOOLEAN] :
           fetchFinishedMatchDetails(ok)
    \/ \E extra \in 0..MaxDelay :
           now + updateInterval + extra <= MaxTime /\ sleep(extra)
    \/ runLiveGamesErr
    \/ \E liveGames \in LiveGamesResponses :
           \E okIDs \in SUBSET FinishedNow(liveGames) :
               handleLiveGamesUpdated(liveGames, okIDs)
    \/ sleepBackoff
    \/ \E id \in Guilds, chs \in GuildChannelLists : onGuildCreate(id, chs)
    \/ \E id \in Guilds : onGuildDelete(id)
    \/ \E id \in Guilds :
           Len(channelList) < MaxChannels /\ onGuildCreateAbs(id)
    \/ \E id \in Guilds : onGuildDeleteAbs(id)

Spec == Init /\ [][Next]_vars

\* The retry scenario: the queue-based bot followed for MaxRetryTime minutes
\* on games that are being played, each match listed once in a response.
InitRetry == Init /\ tracker = "queue"

\* The responses that list no match twice.  Lists with a match repeated are
\* the business of Spec.
RetryGamesResponses ==
    {games \in PlayedGamesResponses :
        Cardinality(GameIDs(games)) = Len(games)}

RetryHistoryResponses ==
    {matches \in MatchHistoryResponses :
        Cardinality(Range(matches)) = Len(matches)}

NextRetry ==
    \/ updateLiveGamesErr
    \/ \E games \in RetryGamesResponses : updateLiveGames(games)
    \/ updateFinishedGamesSkip
    \/ updateFinishedGamesErr
    \/ \E matches \in RetryHistoryResponses : updateFinishedGames(matches)
    \/ \E ok \in [1..Len(finishedQueue) -> BOOLEAN] :
           fetchFinishedMatchDetails(ok)
    \/ \E extra \in 0..MaxDelay :
           now + updateInterval + extra <= MaxRetryTime /\ sleep(extra)

SpecRetry == InitRetry /\ [][NextRetry]_vars

\* The shutdown scenario: either bot, on games that are being played, with
\* the stop signal arriving at any moment.  Every call of the poll loop
\* returns, the timer of its select fires, and main goes on once run has
\* returned.
CycleStep ==
    \/ updateLiveGamesErr
    \/ \E games \in PlayedGamesResponses : updateLiveGames(games)
    \/ updateFinishedGamesSkip
    \/ updateFinishedGamesErr
    \/ \E matches \in MatchHistoryResponses : updateFinishedGames(matches)
    \/ \E ok \in [1..Len(finishedQueue) -> BOOLEAN] :
           fetchFinishedMatchDetails(ok)
    \/ runLiveGamesErr
    \/ \E liveGames \in PlayedGamesResponses :
           \E okIDs \in SUBSET FinishedNow(liveGames) :
               handleLiveGamesUpdated(liveGames, okIDs)

WakeStep ==
    \/ \E extra \in 0..MaxDelay :
           now + updateInterval + extra <= MaxTime /\ sleep(extra)
    \/ sleepBackoff
    \/ runDone
    \/ runDoneBackoff

NextRun ==
    \/ CycleStep
    \/ WakeStep
    \/ cancel
    \/ mainReturn

SpecRun ==
    /\ Init
    /\ [][NextRun]_vars
    /\ WF_vars(CycleStep)
    /\ WF_vars(WakeStep)
    /\ WF_vars(mainReturn)

\* The series scenario: either bot on matches whose game number changes from
\* one response to the next.
NextSeries ==
    \/ updateLiveGamesErr
    \/ \E games \in SeriesGamesResponses : updateLiveGames(games)
    \/ updateFinishedGamesSkip
    \/ updateFinishedGamesErr
    \/ \E matches \in MatchHistoryResponses : updateFinishedGames(matches)
    \/ \E ok \in [1..Len(finishedQueue) -> BOOLEAN] :
           fetchFinishedMatchDetails(ok)
    \/ \E extra \in 0..MaxDelay :
           now + updateInterval + extra <= MaxTime /\ sleep(extra)
    \/ runLiveGamesErr
    \/ \E liveGames \in SeriesGamesResponses :
           \E okIDs \in SUBSET FinishedNow(liveGames) :
               handleLiveGamesUpdated(liveGames, okIDs)
    \/ sleepBackoff

SpecSeries == Init /\ [][NextSeries]_vars

\* The pure functions of the bot, each applied once to an argument drawn
\* from the inputs below.
Scoreboards ==
    [Duration : 0..MaxDuration, DirePicks : 0..MaxPicks,
     RadiantPicks : 0..MaxPicks]

\* The game numbers of a series.
GameNumbers == {1, 2, 3}

FinishedItemArgs == [GameNumber : GameNumbers, MatchDetails : MatchDetails]

PureCalls ==
    {[op |-> "isGameStarted", arg |-> g] : g \in Scoreboards}
    \cup {[op |-> o, arg |-> a] :
             o \in {"matchesFinishedDataItem", "tmplGamesFinishedTTS"},
             a \in FinishedItemArgs}

InitPure ==
    /\ NewBot
    /\ Running
    /\ NewClient
    /\ Unlocked
    /\ Untraced
    /\ call \in PureCalls
    /\ result = << >>

callIsGameStarted ==
    /\ call.op = "isGameStarted"
    /\ result = << >>
    /\ result' = <<isGameStarted(call.arg)>>
    /\ UNCHANGED <<botVars, runVars, sideVars, call>>

callMatchesFinishedDataItem ==
    /\ call.op = "matchesFinishedDataItem"
    /\ result = << >>
    /\ LET item == matchesFinishedDataItem(call.arg.GameNumber,
                                            call.arg.MatchDetails)
       IN result' = <<item, tmplMatchesFinished(item)>>
    /\ UNCHANGED <<botVars, runVars, sideVars, call>>

callTmplGamesFinishedTTS ==
    /\ call.op = "tmplGamesFinishedTTS"
    /\ result = << >>
    /\ result' = <<tmplGamesFinishedTTS(call.arg)>>
    /\ UNCHANGED <<botVars, runVars, sideVars, call>>

NextPure ==
    \/ callIsGameStarted
    \/ callMatchesFinishedDataItem
    \/ callTmplGamesFinishedTTS

SpecPure == InitPure /\ [][NextPure]_vars

\* The API client of the queue-based bot, called from two goroutines.  A
\* caller that waits for the token gets it when it is there often enough:
\* the runtime hands a sent value to the longest waiting receiver.  A
\* request that was sent comes back, a second passes, and a goroutine that
\* can send its token does.
InitClient == Init /\ tracker = "queue"

NextClient ==
    \/ \E c \in Callers : \E endpoint \in Endpoints : callGetJSON(c, endpoint)
    \/ \E c \in Callers : getRateLimitToken(c)
    \/ \E c \in Callers : getRateLimitTokenDone(c)
    \/ \E c \in Callers : Do(c)
    \/ \E c \in Callers : \E res \in HTTPResponses : getJSONReturn(c, res)
    \/ tick
    \/ \E i \in DOMAIN returning : sendToken(i)
    \/ cancel

SpecClient ==
    /\ InitClient
    /\ [][NextClient]_vars
    /\ \A c \in Callers : SF_vars(getRateLimitToken(c))
    /\ \A c \in Callers : WF_vars(Do(c))
    /\ \A c \in Callers :
           WF_vars(\E res \in HTTPResponses : getJSONReturn(c, res))
    /\ WF_vars(tick)
    /\ WF_vars(\E i \in DOMAIN returning : sendToken(i))

\* The channel list of the absence-based bot under the poll loop's
\* sendMessage and the handlers of the guild events, which the session runs
\* in goroutines of their own.
InitRegistry == Init /\ tracker = "absence"

NextRegistry ==
    \/ sendMessage
    \/ RLock
    \/ \E err \in BOOLEAN : ChannelMessageSend(err)
    \/ RUnlock
    \/ \E h \in Handlers : \E op \in {"add", "remove"} :
           \E id \in MemberGuilds : guildEvent(h, op, id)
    \/ \E h \in Handlers : Lock(h)
    \/ \E h \in Handlers : Unlock(h)

SpecRegistry == InitRegistry /\ [][NextRegistry]_vars

\* The registry scenario: the channel map of the queue-based bot under the
\* guild events of three guilds with four channels between them.
InitChannels == Init /\ tracker = "queue"

NextChannels ==
    \/ \E id \in RegistryGuilds, chs \in RegistryChannelLists :
           onGuildCreate(id, chs)
    \/ \E id \in RegistryGuilds : onGuildDelete(id)

SpecChannels == InitChannels /\ [][NextChannels]_vars

\* The join scenario: one GuildCreate event, with up to MaxGuildChannels
\* channels at three positions, is handed to onGuildCreate of the
\* queue-based bot, among the guild events of Spec that come before and
\* after it.
JoinChannelLists ==
    SeqUpTo([ID : RegistryChannelIDs, Type : {"text", "voice"},
             Position : {0, 1, 2}], MaxGuildChannels)

JoinCalls ==
    {[op |-> "onGuildCreate", arg |-> [ID |-> g, Channels |-> chs]] :
        g \in RegistryGuilds, chs \in JoinChannelLists}

InitJoin ==
    /\ NewBot
    /\ Running
    /\ NewClient
    /\ Unlocked
    /\ Untraced
    /\ tracker = "queue"
    /\ call \in JoinCalls
    /\ result = << >>

callOnGuildCreate ==
    /\ call.op = "onGuildCreate"
    /\ onGuildCreate(call.arg.ID, call.arg.Channels)

NextJoin ==
    \/ callOnGuildCreate
    \/ \E id \in Guilds, chs \in GuildChannelLists : onGuildCreate(id, chs)
    \/ \E id \in RegistryGuilds : onGuildDelete(id)

SpecJoin == InitJoin /\ [][NextJoin]_vars

\* The message scenario: the poll loop of either bot, with the
\* sendTemplateMessage calls of every cycle recorded.
InitCycle ==
    NewBot /\ NoCall /\ Running /\ NewClient /\ Unlocked /\ traced = TRUE

NextCycle ==
    \/ updateLiveGamesErr
    \/ \E games \in LiveGamesResponses : updateLiveGames(games)
    \/ updateFinishedGamesSkip
    \/ updateFinishedGamesErr
    \/ \E matches \in MatchHistoryResponses : updateFinishedGames(matches)
    \/ \E ok \in [1..Len(finishedQueue) -> BOOLEAN] :
           fetchFinishedMatchDetails(ok)
    \/ \E extra \in 0..MaxDelay :
           now + updateInterval + extra <= MaxTime /\ sleep(extra)
    \/ runLiveGamesErr
    \/ \E liveGames \in LiveGamesResponses :
           \E okIDs \in SUBSET FinishedNow(liveGames) :
               handleLiveGamesUpdated(liveGames, okIDs)
    \/ sleepBackoff

SpecCycle == InitCycle /\ [][NextCycle]_vars

TypeOK ==
    /\ tracker \in {"absence", "queue"}
    /\ pc \in {"live", "finished", "details", "sleep", "done"}
    /\ now \in 0..MaxRetryTime
    /\ fetchWait \in MatchUpdateInterval..MaxFetchWait
    /\ matchesDrafting \subseteq MatchIDs
    /\ matchesStarted \subseteq MatchIDs
    /\ matchesFinished \subseteq MatchIDs
    /\ DOMAIN gameNumbers = matchesDrafting \cup matchesStarted
    /\ \A i \in 1..Len(finishedQueue) :
           /\ finishedQueue[i].MatchID \in MatchIDs
           /\ finishedQueue[i].AddedAt \in 0..now
    /\ DOMAIN channels \subseteq ChannelIDs
    /\ Range(channelList) \subseteq Guilds

\* ------------------------------------------------------------------ claims
\* The entries of finishedQueue for the match m.
EntriesOf(m) == {i \in 1..Len(finishedQueue) : finishedQueue[i].MatchID = m}

\* The age of a queue entry.
Age(entry) == now - entry.AddedAt

\* The most GetMatchDetails calls an entry can get: one per cycle while it
\* is at most RetryDeadline old, and the one after which it is dropped.
MaxLookups == RetryDeadline \div updateInterval + 2

\* C1, as claimed: a match is announced as drafting at most once, and never
\* after it has been announced as started.
C1_DraftingOnceBeforeStarted ==
    [][\A m \in MatchIDs :
          sentDrafting'[m] # sentDrafting[m]
              => /\ sentDrafting[m] = 0
                 /\ sentDrafting'[m] = 1
                 /\ sentStarted[m] = 0]_vars

C4_RetryUntilDeadline ==
    /\ [](\A m \in MatchIDs :
            /\ lookups[m] <= MaxLookups
            /\ m \in givenUp
                  => (EntriesOf(m) = {} /\ sentFinished[m] = 0)
            /\ pc = "sleep"
                  => \A i \in EntriesOf(m) :
                         Age(finishedQueue[i]) <= RetryDeadline)
    /\ [][\A m \in MatchIDs :
            /\ (pc = "details" /\ EntriesOf(m) # {})
                  => lookups'[m] = lookups[m] + 1
            /\ m \in givenUp
                  => (m \in givenUp' /\ lookups'[m] = lookups[m])]_vars

\* C4's case: an entry was looked up in every cycle from its enqueueing until
\* it was older than the deadline, and then given up.
C4_Witness ==
    \E m \in givenUp : lookups[m] = MaxLookups /\ sentFinished[m] = 0

\* C5, as claimed: an entry leaves the queue by a successful lookup or by
\* its age, whichever comes first; no match has two outcomes; and an entry
\* older than RetryDeadline is neither looked up nor announced.
C5_NoLookupPastDeadline ==
    /\ [](\A m \in MatchIDs : sentFinished[m] <= 1)
    /\ [][\A i \in 1..Len(finishedQueue) :
            LET entry == finishedQueue[i]
                m == entry.MatchID
            IN (pc = "details" /\ Age(entry) > RetryDeadline)
                  => /\ lookups'[m] = lookups[m]
                     /\ sentFinished'[m] = sentFinished[m]]_vars

\* C5, amended: a drain looks up every queued entry, whatever its age.  An
\* entry whose lookup succeeds leaves the queue with exactly one outcome
\* announced; an entry whose lookup fails stays if it is at most
\* RetryDeadline old and is dropped without an outcome if it is older.  No
\* match ever has more than one outcome.
C5_RemovedBySuccessOrAge ==
    /\ [](\A m \in MatchIDs : sentFinished[m] <= 1)
    /\ [][\A i \in 1..Len(finishedQueue) :
            LET entry == finishedQueue[i]
                m == entry.MatchID
                kept == \E j \in 1..Len(finishedQueue') :
                            finishedQueue'[j] = entry
            IN /\ pc # "details" => kept
               /\ pc = "details" =>
                    /\ lookups'[m] = lookups[m] + 1
                    /\ \/ /\ kept
                          /\ Age(entry) <= RetryDeadline
                          /\ sentFinished'[m] = sentFinished[m]
                          /\ m \notin givenUp'
                       \/ /\ ~kept
                          /\ sentFinished'[m] = 1
                          /\ sentFinished[m] = 0
                          /\ m \notin givenUp'
                       \/ /\ ~kept
                          /\ Age(entry) > RetryDeadline
                          /\ sentFinished'[m] = sentFinished[m]
                          /\ m \in givenUp']_vars

\* C5's case: the outcome of a match was announced by the lookup made after
\* its entry had passed the deadline.
C5_Witness ==
    \E m \in MatchIDs :
        /\ sentFinished[m] = 1
        /\ lookups[m] = MaxLookups
        /\ EntriesOf(m) = {}

\* C6: a match with an entry on the queue is marked finished and has had no
\* outcome announced.
C6_QueuedIsFinishedUnannounced ==
    \A i \in 1..Len(finishedQueue) :
        /\ finishedQueue[i].MatchID \in matchesFinished
        /\ sentFinished[finishedQueue[i].MatchID] = 0

\* C6's case: one match is on the queue while the outcome of another has
\* been announced.
C6_Witness ==
    /\ finishedQueue # << >>
    /\ \E m \in MatchIDs : sentFinished[m] = 1

\* C7: no step of the poll loop and no event handler takes a match out of
\* the three sets of seen matches.
C7_PhaseSetsOnlyGrow ==
    [][/\ matchesDrafting \subseteq matchesDrafting'
       /\ matchesStarted \subseteq matchesStarted'
       /\ matchesFinished \subseteq matchesFinished']_vars

\* C7's case: every set holds both matches, one at least was seen drafting
\* before it started, and a guild event has registered a channel.
C7_Witness ==
    /\ matchesDrafting = MatchIDs
    /\ matchesStarted = MatchIDs
    /\ matchesFinished = MatchIDs
    /\ \E m \in MatchIDs : firstSeen[m] = "drafting"
    /\ (channels # << >> \/ channelList # << >>)

\* C8: every match marked finished is marked started.
C8_FinishedWasStarted == matchesFinished \subseteq matchesStarted

\* C8's case: a match is marked finished that was never seen drafting.
C8_Witness == \E m \in matchesFinished : m \notin matchesDrafting

\* C9, as claimed: an outcome is announced only for a match announced as
\* started, and a match marked finished is never announced as drafting or
\* started afterwards.
C9_PhasesNeverBackward ==
    /\ [](\A m \in MatchIDs : sentFinished[m] > 0 => sentStarted[m] > 0)
    /\ [][\A m \in matchesFinished :
            /\ sentDrafting'[m] = sentDrafting[m]
            /\ sentStarted'[m] = sentStarted[m]]_vars

\* C10, as claimed: a match is announced as started at most once, and a
\* match whose first live game classifies as started is announced as started
\* in that cycle and not as drafting.
C10_StartedOnceWithoutDrafting ==
    [][\A m \in MatchIDs :
          /\ sentStarted'[m] # sentStarted[m]
                => (sentStarted[m] = 0 /\ sentStarted'[m] = 1)
          /\ (firstSeen[m] = "none" /\ firstSeen'[m] = "started")
                => /\ sentStarted'[m] = 1
                   /\ sentDrafting'[m] = sentDrafting[m]]_vars

\* C11: isGameStarted answers true exactly when the duration is above zero or
\* the two teams have nine picks or more between them; with no time played
\* 4+4 picks are not started and 5+4 picks are, and a played game without
\* picks is started.
C11_StartedIffDurationOrNinePicks ==
    (call.op = "isGameStarted" /\ result # << >>) =>
        LET g == call.arg
        IN /\ result[1] <=>
                 (g.Duration > 0 \/ g.DirePicks + g.RadiantPicks >= 9)
           /\ (g.Duration = 0 /\ g.DirePicks = 4 /\ g.RadiantPicks = 4)
                 => result[1] = FALSE
           /\ (g.Duration = 0 /\ g.DirePicks = 5 /\ g.RadiantPicks = 4)
                 => result[1] = TRUE
           /\ (g.Duration > 0 /\ g.DirePicks = 0 /\ g.RadiantPicks = 0)
                 => result[1] = TRUE

\* C11's case: a game with no time played and exactly nine picks was
\* classified as started.
C11_Witness ==
    /\ call.op = "isGameStarted"
    /\ result = <<TRUE>>
    /\ call.arg.Duration = 0
    /\ call.arg.DirePicks + call.arg.RadiantPicks = 9

\* The details d with the two sides exchanged and the winner negated.
SwapSides(d) ==
    [RadiantWin |-> ~d.RadiantWin,
     RadiantName |-> d.DireName, DireName |-> d.RadiantName,
     RadiantScore |-> d.DireScore, DireScore |-> d.RadiantScore]

\* The announcement of a finished match with the given winner and loser.
MatchEnded(winner, loser, winnerScore, loserScore, game) ==
    <<"Match Ended: ", winner, " defeated ", loser,
      " (", winnerScore, " - ", loserScore, ", Game ", game, ")">>

\* C12: the outcome of a match names radiant as the winner, with radiant's
\* score first, when radiant_win is true, and dire, with dire's score first,
\* when it is false, in the item of the queue-based bot and in the line
\* either bot prints; exchanging the two sides and negating radiant_win
\* gives the same outcome.
C12_WinnerBySide ==
    (call.op \in {"matchesFinishedDataItem", "tmplGamesFinishedTTS"}
       /\ result # << >>) =>
        LET d == call.arg.MatchDetails
            n == call.arg.GameNumber
            line == result[Len(result)]
            expected ==
                IF d.RadiantWin
                THEN MatchEnded(d.RadiantName, d.DireName,
                                d.RadiantScore, d.DireScore, n)
                ELSE MatchEnded(d.DireName, d.RadiantName,
                                d.DireScore, d.RadiantScore, n)
        IN /\ line = expected
           /\ call.op = "matchesFinishedDataItem" =>
                 /\ result[1].GameNumber = n
                 /\ <<result[1].WinnerName, result[1].LoserName,
                      result[1].WinnerScore, result[1].LoserScore>>
                      = IF d.RadiantWin
                        THEN <<d.RadiantName, d.DireName,
                               d.RadiantScore, d.DireScore>>
                        ELSE <<d.DireName, d.RadiantName,
                               d.DireScore, d.RadiantScore>>
                 /\ result[1] = matchesFinishedDataItem(n, SwapSides(d))
           /\ call.op = "tmplGamesFinishedTTS" =>
                 line = tmplGamesFinishedTTS(
                            [GameNumber |-> n, MatchDetails |-> SwapSides(d)])

\* C12's case: dire won with the higher score, and the item names dire as
\* the winner.
C12_Witness ==
    /\ call.op = "matchesFinishedDataItem"
    /\ result # << >>
    /\ ~call.arg.MatchDetails.RadiantWin
    /\ call.arg.MatchDetails.DireName = "B"
    /\ call.arg.MatchDetails.RadiantName = "A"
    /\ call.arg.MatchDetails.DireScore > call.arg.MatchDetails.RadiantScore
    /\ result[1].WinnerName = "B"
    /\ result[1].WinnerScore = call.arg.MatchDetails.DireScore

\* C13: the game number of an announced outcome is the one the match had in
\* the latest fetched live games that listed it; every started match, and
\* so every match on the queue, has a cached game number, and no outcome
\* carries the zero of a missing cache entry.
C13_OutcomeCarriesLatestGameNumber ==
    /\ [](/\ matchesStarted \subseteq DOMAIN gameNumbers
          /\ \A i \in 1..Len(finishedQueue) :
                 finishedQueue[i].MatchID \in DOMAIN gameNumbers
          /\ \A m \in MatchIDs : outcomeGame[m] # <<0>>)
    /\ [][\A m \in MatchIDs :
            outcomeGame'[m] # outcomeGame[m]
                => /\ lastNumber'[m] # << >>
                   /\ outcomeGame'[m] = lastNumber'[m]
                   /\ outcomeGame'[m] = <<gameNumbers'[m]>>]_vars

\* C13's case: the queue-based bot has announced, in a later cycle than the
\* first, an outcome with game number 2.
C13_Witness ==
    /\ tracker = "queue"
    /\ now > 0
    /\ \E m \in MatchIDs : outcomeGame[m] = <<2>> /\ sentFinished[m] = 1

\* C14: run returns only once the context is cancelled, whatever queries
\* fail; a cycle under way always reaches the select at its end, and from
\* there, unless the context is cancelled, the next cycle starts (for the
\* queue-based bot, within the time the clock covers).
C14_FailuresNeverEndTheLoop ==
    /\ [](pc = "done" => cancelled)
    /\ [](runErr # << >> => cancelled)
    /\ (pc \in {"live", "finished", "details"}) ~> (pc = "sleep")
    /\ (pc = "sleep" /\ ~cancelled
          /\ (tracker = "queue" => now + updateInterval <= MaxTime))
          ~> (pc = "live" \/ cancelled)

\* C14's case: the queue-based bot is at the start of a later cycle, not
\* cancelled, after a cycle in which the live games could not be fetched
\* and a lookup of match details failed, its entry still queued.
C14_Witness ==
    /\ tracker = "queue"
    /\ pc = "finished"
    /\ now > 0
    /\ ~liveOk
    /\ ~cancelled
    /\ \E m \in MatchIDs : lookups[m] > 0 /\ EntriesOf(m) # {}

\* C15: the step of a cycle whose live games could not be fetched changes
\* none of the three sets of seen matches nor the cached game numbers,
\* announces nothing and looks no match up.
C15_FailedFetchChangesNothing ==
    [][(pc = "live" /\ pc' # "live" /\ ~liveOk')
          => /\ UNCHANGED matchVars
             /\ UNCHANGED sentVars
             /\ UNCHANGED queueVars]_vars

\* C15's case: the live games could not be fetched while a started match
\* was not yet finished, and the match is still not finished.
C15_Witness ==
    /\ tracker = "absence"
    /\ pc = "sleep"
    /\ ~liveOk
    /\ matchesStarted \ matchesFinished # {}

\* C16: once the context is cancelled run returns and main ends normally;
\* a loop waiting in its select when the context is cancelled returns from
\* there without the clock moving; what run returns is context.Canceled, and
\* main never takes it for a fault.
C16_CancellationEndsTheLoop ==
    /\ cancelled ~> (pc = "done")
    /\ cancelled ~> (exit = "normal")
    /\ [](pc = "done" => runErr = <<Canceled>>)
    /\ [](exit # "fault")
    /\ [][(pc = "sleep" /\ cancelled /\ pc' # pc)
            => (pc' = "done" /\ now' = now)]_vars

\* C16's case: main has ended normally after the context was cancelled in
\* the middle of a cycle of the queue-based bot with an entry on the queue.
C16_Witness ==
    /\ exit = "normal"
    /\ tracker = "queue"
    /\ finishedQueue # << >>
    /\ lookups[finishedQueue[1].MatchID] > 0
\* C17: at most one caller holds the rate limit token at a time, a request is
\* under way only for a caller that holds the token, and a request is started
\* no sooner than one second after the request before it.
C17_OneTokenOneRequestPerSecond ==
    /\ [](Cardinality({c \in Callers : HoldsToken(c)}) <= 1)
    /\ [](\A c \in Callers : query[c].pc = "request" => HoldsToken(c))
    /\ [][\A c \in Callers :
              (query[c].pc # "request" /\ query'[c].pc = "request")
              => HoldsToken(c) /\ sinceStart >= 1]_vars

\* C17 witness: one caller has made its request and the other, who waited
\* for the token, has just started the next.
C17_Witness ==
    /\ query["loop"].pc = "returned"
    /\ query["loop"].requests = 1
    /\ query["other"].pc = "request"
    /\ sinceStart = 0

\* C18: the token in the channel, the tokens held by callers and the tokens
\* on their way back are one token; a getJSON that took the token starts
\* one returning goroutine when it returns, whatever it returns, and nothing
\* else starts one; a goroutine that has slept finds room in the channel;
\* and a caller that waits for the token gets it, unless the context is
\* cancelled.
C18_TokenConserved ==
    /\ [](rateLimitCh + Cardinality({c \in Callers : HoldsToken(c)})
            + Len(returning) = 1)
    /\ [](\A i \in DOMAIN returning :
              returning[i] = 0 => rateLimitCh < RateLimitCap)
    /\ [][/\ \A c \in Callers :
                (HoldsToken(c) /\ query'[c].pc = "returned")
                => Len(returning') = Len(returning) + 1
          /\ Len(returning') > Len(returning)
             => \E c \in Callers :
                    HoldsToken(c) /\ query'[c].pc = "returned"]_vars
    /\ \A c \in Callers :
           (query[c].pc = "token" /\ ~cancelled)
           ~> (HoldsToken(c) \/ cancelled)

\* C18 witness: a call that ended with a failed check has its token on the
\* way back while the other caller waits for it.
C18_Witness ==
    /\ query["loop"].pc = "returned"
    /\ query["loop"].err = "Bad steam result"
    /\ Len(returning) = 1
    /\ query["other"].pc = "token"

\* C19: a call makes at most one HTTP request, and it returns no error
\* exactly when the request was answered with status code 200 and a body
\* that decodes and passes the check of its endpoint: status 200 for live
\* games and heroes, status 1 for the match history, no error and match
\* details for the match details.
C19_SuccessIffAllChecksPass ==
    \A c \in Callers :
        query[c].pc # "idle" =>
            /\ query[c].requests <= 1
            /\ query[c].pc = "returned" =>
                   (query[c].err = "nil" <=>
                       /\ query[c].requests = 1
                       /\ query[c].res # << >>
                       /\ query[c].res[1].sent
                       /\ query[c].res[1].StatusCode = 200
                       /\ query[c].res[1].decodes
                       /\ LET body == query[c].res[1].Body
                              endpoint == query[c].endpoint
                          IN \/ /\ endpoint \in {"GetLiveLeagueGames",
                                                 "GetHeroes"}
                                /\ body.Status = 200
                             \/ /\ endpoint = "GetMatchHistory"
                                /\ body.Status = 1
                             \/ /\ endpoint = "GetMatchDetails"
                                /\ ~body.Error
                                /\ body.MatchDetails)

\* C19 witness: a match history call has returned without an error, on a
\* body of status 1.
C19_Witness ==
    \E c \in Callers :
        /\ query[c].pc = "returned"
        /\ query[c].endpoint = "GetMatchHistory"
        /\ query[c].err = "nil"
        /\ query[c].res[1].Body.Status = 1

\* C20: the channel list changes only while no sendMessage holds the read
\* lock, no two handlers hold the write lock at once and none holds it
\* together with a reader, and a sendMessage sends, in order, to the channels
\* that were on the list when it got the read lock.
C20_ReadersWriterDiscipline ==
    /\ [][channelList' # channelList
          => channelsMu.readers = {} /\ sending.pc # "range"]_vars
    /\ [](Cardinality(channelsMu.writers) <= 1)
    /\ [](channelsMu.writers # {} => channelsMu.readers = {})
    /\ [](sending.pc = "range" =>
              sending.sent = SubSeq(sending.snapshot, 1, sending.i - 1))
    /\ [](sending.pc = "done" => sending.sent = sending.snapshot)

\* C20 witness: sendMessage is between its two sends while a handler waits
\* to remove the channel the message has just gone to.
C20_Witness ==
    /\ sending.pc = "range"
    /\ sending.n = 2
    /\ sending.i = 2
    /\ \E h \in Handlers : handling[h] = [pc |-> "lock", op |-> "remove",
                                           id |-> sending.snapshot[1]]

\* C21: a step of onGuildDelete for a guild leaves no channel of that guild
\* on the map, adds none, and leaves every channel of another guild where
\* it was; a map that held only channels of the guild is empty afterwards.
C21_RemoveGuildRemovesItsChannelsOnly ==
    [][\A g \in RegistryGuilds :
          onGuildDelete(g) =>
              /\ \A c \in DOMAIN channels' : channels'[c] # g
              /\ DOMAIN channels' \subseteq DOMAIN channels
              /\ \A c \in DOMAIN channels :
                     channels[c] # g =>
                         c \in DOMAIN channels' /\ channels'[c] = channels[c]
              /\ (\A c \in DOMAIN channels : channels[c] = g)
                     => channels' = << >>]_vars

\* C21 witness: two channels are registered under one guild and a third
\* under another.
C21_Witness ==
    \E g, h \in RegistryGuilds :
        /\ g # h
        /\ Cardinality({c \in DOMAIN channels : channels[c] = g}) = 2
        /\ Cardinality({c \in DOMAIN channels : channels[c] = h}) = 1

\* C22: a sendMessage that has returned has sent once to every channel that
\* was registered, and to no other, whatever sends failed; with no channel
\* registered it has sent nothing.
C22_OneAttemptPerChannel ==
    sending.pc = "done" =>
        /\ Range(sending.sent) = Range(sending.snapshot)
        /\ \A ch \in Range(sending.snapshot) :
               Occurrences(sending.sent, ch) = 1

\* C23: no channel id is on the channel list more than once.
C23_OneRegistrationPerChannel ==
    \A id \in MemberGuilds : Occurrences(channelList, id) <= 1


\* C24: in the absence-based bot the wait of run is the base interval doubled
\* once for every GetLiveLeagueGames call that failed since the latest one
\* that succeeded, and never more than the ceiling: after k failures in a row
\* it is min(MatchUpdateInterval * 2^k, 15 minutes), after a success it is
\* MatchUpdateInterval again, and the wait that is slept lies between
\* MatchUpdateInterval and 15 minutes.
C24_BackoffWait ==
    tracker = "absence"
        => /\ fetchWait = Min(MatchUpdateInterval * 2^failures, MaxFetchWait)
           /\ MatchUpdateInterval <= fetchWait
           /\ fetchWait <= MaxFetchWait
           /\ pc = "sleep" /\ liveOk => fetchWait = MatchUpdateInterval

\* The run that started matches, then failed MaxFailures times in a row,
\* sleeps the ceiling.
C24_Witness ==
    /\ tracker = "absence"
    /\ pc = "sleep"
    /\ matchesStarted # {}
    /\ failures = MaxFailures
    /\ fetchWait = MaxFetchWait


\* C25: the kind of a message fixes how it is sent: every drafting message
\* goes out as plain text, every started and every finished message is read
\* out (tts), in either bot.
C25_ModeFixedByKind ==
    \A i \in DOMAIN posted :
        /\ posted[i].kind \in {"drafting", "started", "finished"}
        /\ posted[i].tts <=> posted[i].kind # "drafting"

\* One call of handleLiveGamesUpdated has sent a message of each kind.
C25_Witness ==
    /\ tracker = "absence"
    /\ pc = "sleep"
    /\ {posted[i].kind : i \in DOMAIN posted}
           = {"drafting", "started", "finished"}


\* C26: the handlers of the guild events and the poll loop own different
\* state: a guild-create or guild-delete handler of either bot leaves the
\* three phase sets, the game-number cache, the finished queue and the
\* loop's position as they are, and every step of the poll loop leaves the
\* channels of both bots as they are.
C26_DisjointOwnership ==
    [][/\ (\/ \E id \in Guilds, chs \in GuildChannelLists :
                  onGuildCreate(id, chs)
           \/ \E id \in Guilds : onGuildDelete(id)
           \/ \E id \in Guilds : onGuildCreateAbs(id)
           \/ \E id \in Guilds : onGuildDeleteAbs(id))
          => UNCHANGED <<matchVars, finishedQueue, pc>>
       /\ registryVars' # registryVars
          => UNCHANGED <<matchVars, finishedQueue, pc>>
       /\ (pc' # pc \/ matchVars' # matchVars
              \/ finishedQueue' # finishedQueue)
          => UNCHANGED registryVars]_vars

\* A channel is registered while a started match waits on the finished
\* queue: handlers and poll loop have both written their state.
C26_Witness ==
    /\ tracker = "queue"
    /\ channels # << >>
    /\ matchesStarted # {}
    /\ gameNumbers # << >>
    /\ finishedQueue # << >>


\* C27: a call that waits for the rate limit token when the context is
\* cancelled, and leaves the wait through the cancellation, returns an error
\* with no HTTP request made, has not taken the token, and starts no
\* goroutine that sends one: the tokens in the channel and on their way back
\* are what they were.  Such a call is the only one that returns without a
\* request.
C27_CancelledWaitTakesNothing ==
    /\ [][\A c \in Callers :
              (query[c].pc = "token" /\ query'[c].pc = "returned")
              => /\ cancelled
                 /\ query'[c].err = "Error while waiting for rate limit token"
                 /\ query'[c].requests = 0
                 /\ query'[c].res = << >>
                 /\ ~query'[c].token
                 /\ rateLimitCh' = rateLimitCh
                 /\ returning' = returning
                 /\ sinceStart' = sinceStart]_vars
    /\ [](\A c \in Callers :
              (query[c].pc = "returned" /\ query[c].requests = 0)
              => /\ cancelled
                 /\ query[c].err
                        = "Error while waiting for rate limit token")

\* The context was cancelled while one caller held the token and the other
\* waited for it: the waiting call has returned its error and the token is
\* still with the caller that holds it.
C27_Witness ==
    /\ cancelled
    /\ query["other"].pc = "returned"
    /\ query["other"].err = "Error while waiting for rate limit token"
    /\ query["other"].requests = 0
    /\ HoldsToken("loop")
    /\ rateLimitCh = 0
    /\ returning = << >>


\* C28: a drain calls GetMatchDetails once for every entry that is on the
\* queue when it starts.  The queue it leaves holds no entry that was not on
\* the queue before, and none more often than before: an entry that stays
\* keeps its MatchID and its AddedAt.  An entry whose lookup brought no
\* outcome stays exactly when it is at most RetryDeadline old.
C28_DrainKeepsEntriesAsTheyWere ==
    [][pc = "details" =>
          /\ \A m \in MatchIDs :
                 lookups'[m] = lookups[m] + Cardinality(EntriesOf(m))
          /\ Len(finishedQueue') <= Len(finishedQueue)
          /\ \A j \in 1..Len(finishedQueue') :
                 /\ finishedQueue'[j] \in Range(finishedQueue)
                 /\ Occurrences(finishedQueue', finishedQueue'[j])
                        <= Occurrences(finishedQueue, finishedQueue'[j])
          /\ \A i \in 1..Len(finishedQueue) :
                 LET entry == finishedQueue[i]
                     m == entry.MatchID
                 IN sentFinished'[m] = sentFinished[m]
                       => (entry \in Range(finishedQueue')
                              <=> Age(entry) <= RetryDeadline)]_vars

\* After a drain that brought the outcome of one match, the entry of another
\* is still queued under the time it was enqueued at, RetryDeadline ago, and
\* has been looked up in every cycle since.
C28_Witness ==
    /\ pc = "sleep"
    /\ \E i \in 1..Len(finishedQueue) :
           /\ Age(finishedQueue[i]) = RetryDeadline
           /\ lookups[finishedQueue[i].MatchID] = RetryDeadline + 1
    /\ \E m \in MatchIDs : sentFinished[m] = 1 /\ lookups[m] > 1


\* The place of a kind of message in a cycle.
KindRank(kind) ==
    CASE kind = "drafting" -> 1
      [] kind = "started" -> 2
      [] kind = "finished" -> 3

\* C29: a cycle of the queue-based bot goes from the live games to the
\* finished matches to the drain of the queue and then sleeps, so a match
\* that was put on the queue has had a lookup by the time the cycle sleeps,
\* and one without a lookup is on the queue the drain is about to run over;
\* the messages of a cycle go out in the order drafting, started, finished,
\* each kind at most once.
C29_CycleOrder ==
    /\ [][(tracker = "queue" /\ pc' # pc)
             => <<pc, pc'>> \in {<<"live", "finished">>,
                                 <<"finished", "details">>,
                                 <<"details", "sleep">>,
                                 <<"sleep", "live">>}]_vars
    /\ [](tracker = "queue"
             => \A m \in MatchIDs :
                    (enqueued[m] > 0 /\ lookups[m] = 0)
                        => (pc = "details" /\ EntriesOf(m) # {}))
    /\ [](\A i, j \in DOMAIN posted :
              i < j => KindRank(posted[i].kind) < KindRank(posted[j].kind))

\* The first cycle of the queue-based bot has sent a message of each kind,
\* the finished one for a match that was enqueued and looked up in it.
C29_Witness ==
    /\ tracker = "queue"
    /\ pc = "sleep"
    /\ now = 0
    /\ [i \in DOMAIN posted |-> posted[i].kind]
           = <<"drafting", "started", "finished">>
    /\ \E m \in MatchIDs :
           enqueued[m] = 1 /\ lookups[m] = 1 /\ sentFinished[m] = 1


\* C30: the absence-based bot marks a match finished in the step that looks
\* its details up, whatever the lookup brings, and looks up no match that is
\* marked: a match is marked finished exactly when it has had its one
\* lookup, and a marked match whose outcome was not announced by that step
\* has no outcome announced in any later step.
C30_OneLookupNoRetry ==
    /\ [](tracker = "absence"
             => \A m \in MatchIDs :
                    /\ lookups[m] <= 1
                    /\ m \in matchesFinished <=> lookups[m] = 1
                    /\ sentFinished[m] <= lookups[m])
    /\ [][tracker = "absence"
             => \A m \in MatchIDs :
                    /\ lookups'[m] # lookups[m]
                          => (m \notin matchesFinished
                                 /\ m \in matchesFinished')
                    /\ sentFinished'[m] # sentFinished[m]
                          => lookups'[m] # lookups[m]
                    /\ m \in matchesFinished
                          => /\ m \in matchesFinished'
                             /\ sentFinished'[m] = sentFinished[m]]_vars

\* A match whose lookup failed is marked finished without an outcome, and
\* has been missing from the live games of a later cycle without another
\* lookup.
C30_Witness ==
    /\ tracker = "absence"
    /\ pc = "sleep"
    /\ liveOk
    /\ \E m \in matchesFinished :
           /\ missed[m] = 2
           /\ lookups[m] = 1
           /\ sentFinished[m] = 0


\* The places of the text channels in the channel list of a guild.
TextChannels(chs) == {i \in 1..Len(chs) : chs[i].Type = "text"}

\* C31: a step of onGuildCreate for a guild with text channels registers one
\* channel under the guild's id, a text channel no other text channel of the
\* guild has a lower position than, and leaves every other channel as it
\* was; for a guild without text channels it leaves the map as it was.
C31_JoinRegistersLowestTextChannel ==
    [][callOnGuildCreate =>
          LET g == call.arg.ID
              chs == call.arg.Channels
          IN /\ TextChannels(chs) = {} => channels' = channels
             /\ TextChannels(chs) # {} =>
                    \E i \in TextChannels(chs) :
                        /\ \A j \in TextChannels(chs) :
                               chs[i].Position <= chs[j].Position
                        /\ DOMAIN channels'
                               = DOMAIN channels \cup {chs[i].ID}
                        /\ channels'[chs[i].ID] = g
                        /\ \A c \in DOMAIN channels \ {chs[i].ID} :
                               channels'[c] = channels[c]]_vars

\* C31 witness: of the two text channels of the event the second has the
\* lower position and is the one registered under the guild, next to a
\* channel of another guild.
C31_Witness ==
    LET g == call.arg.ID
        chs == call.arg.Channels
    IN /\ call.op = "onGuildCreate"
       /\ TextChannels(chs) = {1, 2}
       /\ chs[2].Position < chs[1].Position
       /\ chs[1].ID # chs[2].ID
       /\ chs[2].ID \in DOMAIN channels
       /\ channels[chs[2].ID] = g
       /\ chs[1].ID \notin DOMAIN channels
       /\ \E c \in DOMAIN channels : channels[c] # g

====
